---------------------------- MODULE Spec2Model ----------------------------
(***************************************************************************)
(* Model of diff_drive_controller::Odometry (src/src/odometry.cpp).        *)
(*                                                                         *)
(* A C++ double is modelled as an exact extended rational <<n, d>> in      *)
(* lowest terms with d >= 0: d > 0 is the finite value n/d, <<1, 0>> and   *)
(* <<-1, 0>> are +Inf and -Inf, <<0, 0>> is NaN.  Rounding error and the   *)
(* sign of zero are not modelled.  ros::Time is an integer number of       *)
(* ticks, TicksPerSec ticks to the second.                                 *)
(*                                                                         *)
(* sin and cos are not computable on rationals, so x_ and y_ are kept as   *)
(* formal sums of terms coef*sin(arg) and coef*cos(arg), with only         *)
(* sin(0) = 0, cos(0) = 1, sin(-a) = -sin(a), cos(-a) = cos(a)             *)
(* interpreted.  Two equal formal sums denote equal reals.                 *)
(***************************************************************************)
EXTENDS Integers, Sequences, FiniteSets, TLC

\* Bound on the number of calls made on the Odometry object (Spec).
MaxCalls == 3

\* Bound on the number of calls when only setWheelParams and the two
\* encoder updates are called (SpecEnc).
MaxEncCalls == 4

\* Calls made on an object driven through the velocity estimate's operations.
MaxVelCalls == 4

\* Resolution of the modelled clock: one tick is 50 microseconds.
TicksPerSec == 20000

---------------------------------------------------------------------------
(* Extended rational arithmetic (C++ double, exact).                       *)

Abs(n) == IF n < 0 THEN -n ELSE n

RECURSIVE GCD(_, _)
GCD(a, b) == IF b = 0 THEN a ELSE GCD(b, a % b)

Norm(n, d) ==
  LET s == IF d < 0 THEN -1 ELSE 1
      g == GCD(Abs(n), Abs(d))
  IN  IF g = 0 THEN <<0, 0>> ELSE <<(s * n) \div g, (s * d) \div g>>

R(n) == <<n, 1>>
Zero == <<0, 1>>
One == <<1, 1>>
Half == <<1, 2>>
NaN == <<0, 0>>

IsNaN(a) == a = NaN
IsFinite(a) == a[2] # 0

Neg(a) == <<-a[1], a[2]>>

Add(a, b) ==
  IF a[2] = 0 \/ b[2] = 0
  THEN IF IsNaN(a) \/ IsNaN(b) THEN NaN
       ELSE IF a[2] = 0 /\ b[2] = 0 THEN (IF a = b THEN a ELSE NaN)
       ELSE IF a[2] = 0 THEN a ELSE b
  ELSE LET g == GCD(a[2], b[2])
       IN  Norm(a[1] * (b[2] \div g) + b[1] * (a[2] \div g), (a[2] \div g) * b[2])

Sub(a, b) == Add(a, Neg(b))

Mul(a, b) ==
  LET g1 == GCD(Abs(a[1]), b[2])
      g2 == GCD(Abs(b[1]), a[2])
  IN  IF g1 = 0 \/ g2 = 0 THEN Norm(a[1] * b[1], a[2] * b[2])
      ELSE Norm((a[1] \div g1) * (b[1] \div g2), (a[2] \div g2) * (b[2] \div g1))

Inv(a) == IF a[1] < 0 THEN <<-a[2], -a[1]>> ELSE <<a[2], a[1]>>

Div(a, b) == Mul(a, Inv(b))

\* a < b; false whenever an operand is NaN.
Less(a, b) ==
  /\ ~IsNaN(a)
  /\ ~IsNaN(b)
  /\ IF a[2] = 0 /\ b[2] = 0 THEN a[1] < b[1] ELSE a[1] * b[2] < b[1] * a[2]

Fabs(a) == <<Abs(a[1]), a[2]>>

\* (time - timestamp_).toSec()
toSec(ticks) == Norm(ticks, TicksPerSec)

\* 0.0001, the smallest interval a velocity is estimated over (seconds).
MinDt == <<1, 10000>>

\* 1e-4, below which integrateExact falls back to integrateRungeKutta2 (rad).
MinAngular == <<1, 10000>>

---------------------------------------------------------------------------
(* Formal sums for x_ and y_.  A term is <<fn, arg, coef>>, fn one of      *)
(* "sin", "cos", "one" (the constant 1) and "nan" (the whole sum is NaN).  *)

XZero == {}
XNaN == {<<"nan", Zero, One>>}

Merge(s, fn, arg, coef) ==
  LET old == {t \in s : t[1] = fn /\ t[2] = arg}
      c == IF old = {} THEN coef ELSE Add((CHOOSE t \in old : TRUE)[3], coef)
  IN  IF c = Zero THEN s \ old ELSE (s \ old) \cup {<<fn, arg, c>>}

\* s + coef * fn(arg).  sin and cos of a non-finite argument are NaN, and
\* NaN times anything (zero included) is NaN.
AddScaled(s, coef, fn, arg) ==
  IF s = XNaN \/ ~IsFinite(coef) \/ ~IsFinite(arg) THEN XNaN
  ELSE IF coef = Zero THEN s
  ELSE IF fn = "sin"
       THEN IF arg = Zero THEN s
            ELSE IF arg[1] < 0 THEN Merge(s, "sin", Neg(arg), Neg(coef))
            ELSE Merge(s, "sin", arg, coef)
       ELSE IF arg = Zero THEN Merge(s, "one", Zero, coef)
            ELSE Merge(s, "cos", Fabs(arg), coef)

\* s + c for a constant c.
AddConst(s, c) == AddScaled(s, c, "cos", Zero)

---------------------------------------------------------------------------
(* The rolling mean accumulators (boost::accumulators rolling_mean): the   *)
(* samples of the window, oldest first.                                    *)

RECURSIVE SumSeq(_)
SumSeq(s) == IF s = <<>> THEN Zero ELSE Add(Head(s), SumSeq(Tail(s)))

\* A window that never drops a sample.
RollingPush_noEvict(acc, window_size, v) == Append(acc, v)

\* linear_accum_(v): push v, dropping the oldest sample of a full window.
RollingPush(acc, window_size, v) ==
  IF Len(acc) < window_size THEN Append(acc, v) ELSE Append(Tail(acc), v)

\* bacc::rolling_mean(acc)
rolling_mean(acc) == Div(SumSeq(acc), R(Len(acc)))

\* RollingMeanAcc(RollingWindow::window_size = n): an empty window.
RollingMeanAcc == <<>>

---------------------------------------------------------------------------
VARIABLES
  \* The fields of Odometry.
  timestamp_,
  x_, y_, heading_,
  linear_vel_, angular_vel_,
  wheel_separation_, left_wheel_radius_, right_wheel_radius_,
  left_wheel_old_pos_, right_wheel_old_pos_,
  velocity_rolling_window_size_,
  linear_accum_, angular_accum_,
  \* History of the calls made on the object (no field of Odometry).
  callsLeft,        \* number of calls the bound still allows
  last,             \* the last call: name, arguments, return value, and the
                    \* increment <<linear, angular>> it gave integrate_fun_
  maxTime,          \* the latest time passed to any call so far
  linear_samples,   \* every sample given to linear_accum_ since its last reset
  angular_samples,  \* every sample given to angular_accum_ since its last reset
  discarded,        \* number of samples the last reset of the accumulators
                    \* threw away
  run,              \* the encoder updates since the last setWheelParams or
                    \* updateOpenLoop: the heading and EncoderMemory they
                    \* started from, the sums of the increments integrated,
                    \* and how many of the updates returned false
  prev_enc          \* <<left_pos, right_pos, left radius, right radius>> of
                    \* the last encoder-position-based update, or <<>>

pose == <<x_, y_, heading_>>
velocity == <<linear_vel_, angular_vel_>>
wheelParams == <<wheel_separation_, left_wheel_radius_, right_wheel_radius_>>
encoderMemory == <<left_wheel_old_pos_, right_wheel_old_pos_>>
accumulators == <<linear_accum_, angular_accum_>>

vars == <<timestamp_, x_, y_, heading_, linear_vel_, angular_vel_,
          wheel_separation_, left_wheel_radius_, right_wheel_radius_,
          left_wheel_old_pos_, right_wheel_old_pos_,
          velocity_rolling_window_size_, linear_accum_, angular_accum_,
          callsLeft, last, maxTime, linear_samples, angular_samples, discarded,
          run, prev_enc>>

---------------------------------------------------------------------------
(* Inputs.                                                                 *)

\* Call times, in ticks.  The intervals between them are negative, zero,
\* one tick (50 us, below MinDt), two ticks (exactly MinDt) and more.
Times == {0, 2, 3, 5}

\* The time passed to update, which never reads it.
UpdateTimes == {2}

\* Wheel joint positions <<left_pos, right_pos>>.
PosPairs == {<<R(0), R(0)>>, <<R(1), R(2)>>}

\* Wheel joint velocities <<left_vel, right_vel>>.
RatePairs == {<<R(1), R(1)>>, <<R(0), R(1)>>}

\* Commanded body velocities <<linear, angular>>.
VelPairs == {<<R(1), R(0)>>, <<R(1), R(1)>>}

\* <<wheel_separation, left_wheel_radius, right_wheel_radius>>
WheelParamChoices == {<<R(20000), R(1), R(1)>>, <<R(2), R(2), R(1)>>}

\* velocity_rolling_window_size
WindowSizes == {1, 2}

---------------------------------------------------------------------------
(* Pose integration.  A pose is <<x, y, heading>>.                         *)

integrateRungeKutta2(p, linear, angular) ==
  LET direction == Add(p[3], Mul(angular, Half))
  IN  <<AddScaled(p[1], linear, "cos", direction),
        AddScaled(p[2], linear, "sin", direction),
        Add(p[3], angular)>>

\* integrateExact taking the Runge-Kutta branch at the threshold too.
integrateExact_inclusive(p, linear, angular) ==
  IF ~Less(MinAngular, Fabs(angular))
  THEN integrateRungeKutta2(p, linear, angular)
  ELSE LET heading_old == p[3]
           radius == Div(linear, angular)
           heading_new == Add(p[3], angular)
       IN  <<AddScaled(AddScaled(p[1], radius, "sin", heading_new),
                       Neg(radius), "sin", heading_old),
             AddScaled(AddScaled(p[2], Neg(radius), "cos", heading_new),
                       radius, "cos", heading_old),
             heading_new>>

integrateExact(p, linear, angular) ==
  IF Less(Fabs(angular), MinAngular)
  THEN integrateRungeKutta2(p, linear, angular)
  ELSE LET heading_old == p[3]
           radius == Div(linear, angular)
           heading_new == Add(p[3], angular)
       IN  <<AddScaled(AddScaled(p[1], radius, "sin", heading_new),
                       Neg(radius), "sin", heading_old),
             AddScaled(AddScaled(p[2], Neg(radius), "cos", heading_new),
                       radius, "cos", heading_old),
             heading_new>>

\* The integration function bound by the constructor.
integrate_fun_(p, linear, angular) == integrateExact(p, linear, angular)

---------------------------------------------------------------------------
(* Bookkeeping of the history variables.                                   *)

NoIncrement == <<Zero, Zero>>

Call(op, args, ret, inc) == [op |-> op, args |-> args, ret |-> ret, inc |-> inc]

Max(a, b) == IF a < b THEN b ELSE a

\* A call that is no encoder update and leaves WheelParams alone.
KeepRun == UNCHANGED <<run, prev_enc>>

\* A run of encoder updates starts from heading h and EncoderMemory <<l, r>>.
NewRun(h, l, r) ==
  [heading0 |-> h, left0 |-> l, right0 |-> r, linear |-> Zero, angular |-> Zero,
   calls |-> 0, refused |-> 0]

\* An encoder update that returned ret integrated <<linear, angular>>.
Integrated(linear, angular, ret) ==
  [run EXCEPT !.linear = Add(@, linear), !.angular = Add(@, angular),
              !.calls = @ + 1, !.refused = IF ret THEN @ ELSE @ + 1]

---------------------------------------------------------------------------
(* The object after construction, and its operations.                      *)

\* Odometry::Odometry(velocity_rolling_window_size)
Constructed ==
  /\ timestamp_ = 0
  /\ x_ = XZero
  /\ y_ = XZero
  /\ heading_ = Zero
  /\ linear_vel_ = Zero
  /\ angular_vel_ = Zero
  /\ wheel_separation_ = Zero
  /\ left_wheel_radius_ = Zero
  /\ right_wheel_radius_ = Zero
  /\ left_wheel_old_pos_ = Zero
  /\ right_wheel_old_pos_ = Zero
  /\ velocity_rolling_window_size_ \in WindowSizes
  /\ linear_accum_ = RollingMeanAcc
  /\ angular_accum_ = RollingMeanAcc
  /\ last = Call("Odometry", <<>>, TRUE, NoIncrement)
  /\ maxTime = 0
  /\ linear_samples = <<>>
  /\ angular_samples = <<>>
  /\ discarded = 0
  /\ run = NewRun(Zero, Zero, Zero)
  /\ prev_enc = <<>>

Init == Constructed /\ callsLeft = MaxCalls

\* resetAccumulators resetting linear_accum_ twice and angular_accum_ never.
resetAccumulators_linearOnly ==
  /\ linear_accum_' = RollingMeanAcc
  /\ angular_accum_' = angular_accum_

resetAccumulators ==
  /\ linear_accum_' = RollingMeanAcc
  /\ angular_accum_' = RollingMeanAcc

\* init forgetting the baseline timestamp.
init_keepTimestamp(time) ==
  /\ callsLeft > 0
  /\ resetAccumulators
  /\ UNCHANGED <<timestamp_, x_, y_, heading_, linear_vel_, angular_vel_,
                 wheel_separation_, left_wheel_radius_, right_wheel_radius_,
                 left_wheel_old_pos_, right_wheel_old_pos_,
                 velocity_rolling_window_size_>>
  /\ callsLeft' = callsLeft - 1
  /\ last' = Call("init", <<time>>, TRUE, NoIncrement)
  /\ maxTime' = Max(maxTime, time)
  /\ linear_samples' = <<>>
  /\ angular_samples' = <<>>
  /\ discarded' = Len(linear_samples)
  /\ KeepRun

\* init also putting the pose back at the origin.
init_zeroPose(time) ==
  /\ callsLeft > 0
  /\ resetAccumulators
  /\ timestamp_' = time
  /\ x_' = XZero
  /\ y_' = XZero
  /\ heading_' = Zero
  /\ UNCHANGED <<linear_vel_, angular_vel_,
                 wheel_separation_, left_wheel_radius_, right_wheel_radius_,
                 left_wheel_old_pos_, right_wheel_old_pos_,
                 velocity_rolling_window_size_>>
  /\ callsLeft' = callsLeft - 1
  /\ last' = Call("init", <<time>>, TRUE, NoIncrement)
  /\ maxTime' = Max(maxTime, time)
  /\ linear_samples' = <<>>
  /\ angular_samples' = <<>>
  /\ discarded' = Len(linear_samples)
  /\ KeepRun

init(time) ==
  /\ callsLeft > 0
  /\ resetAccumulators
  /\ timestamp_' = time
  /\ UNCHANGED <<x_, y_, heading_, linear_vel_, angular_vel_,
                 wheel_separation_, left_wheel_radius_, right_wheel_radius_,
                 left_wheel_old_pos_, right_wheel_old_pos_,
                 velocity_rolling_window_size_>>
  /\ callsLeft' = callsLeft - 1
  /\ last' = Call("init", <<time>>, TRUE, NoIncrement)
  /\ maxTime' = Max(maxTime, time)
  /\ linear_samples' = <<>>
  /\ angular_samples' = <<>>
  /\ discarded' = Len(linear_samples)
  /\ KeepRun

\* updateWithVelEst returning on a short interval after EncoderMemory has
\* advanced and before the pose is integrated.
updateWithVelEst_lossy(left_pos, right_pos, time) ==
  LET left_wheel_cur_pos == Mul(left_pos, left_wheel_radius_)
      right_wheel_cur_pos == Mul(right_pos, right_wheel_radius_)
      left_wheel_dist_traveled == Sub(left_wheel_cur_pos, left_wheel_old_pos_)
      right_wheel_dist_traveled == Sub(right_wheel_cur_pos, right_wheel_old_pos_)
      linear == Mul(Add(right_wheel_dist_traveled, left_wheel_dist_traveled), Half)
      angular == Div(Sub(right_wheel_dist_traveled, left_wheel_dist_traveled),
                     wheel_separation_)
      p == integrate_fun_(pose, linear, angular)
      dt == toSec(time - timestamp_)
      lin_acc == RollingPush(linear_accum_, velocity_rolling_window_size_,
                             Div(linear, dt))
      ang_acc == RollingPush(angular_accum_, velocity_rolling_window_size_,
                             Div(angular, dt))
  IN  /\ callsLeft > 0
      /\ left_wheel_old_pos_' = left_wheel_cur_pos
      /\ right_wheel_old_pos_' = right_wheel_cur_pos
      /\ IF Less(dt, MinDt)
         THEN /\ UNCHANGED <<timestamp_, linear_accum_, angular_accum_,
                             linear_vel_, angular_vel_, x_, y_, heading_>>
              /\ last' = Call("updateWithVelEst", <<left_pos, right_pos, time>>,
                              FALSE, NoIncrement)
              /\ UNCHANGED <<linear_samples, angular_samples>>
              /\ run' = Integrated(Zero, Zero, FALSE)
         ELSE /\ x_' = p[1]
              /\ y_' = p[2]
              /\ heading_' = p[3]
              /\ timestamp_' = time
              /\ linear_accum_' = lin_acc
              /\ angular_accum_' = ang_acc
              /\ linear_vel_' = rolling_mean(lin_acc)
              /\ angular_vel_' = rolling_mean(ang_acc)
              /\ last' = Call("updateWithVelEst", <<left_pos, right_pos, time>>,
                              TRUE, <<linear, angular>>)
              /\ linear_samples' = Append(linear_samples, Div(linear, dt))
              /\ angular_samples' = Append(angular_samples, Div(angular, dt))
              /\ run' = Integrated(linear, angular, TRUE)
      /\ UNCHANGED <<wheel_separation_, left_wheel_radius_, right_wheel_radius_,
                     velocity_rolling_window_size_>>
      /\ callsLeft' = callsLeft - 1
      /\ maxTime' = Max(maxTime, time)
      /\ UNCHANGED discarded
      /\ prev_enc' = <<left_pos, right_pos, left_wheel_radius_, right_wheel_radius_>>

\* updateWithVelEst with the interval tested before anything is done.
updateWithVelEst_testFirst(left_pos, right_pos, time) ==
  LET left_wheel_cur_pos == Mul(left_pos, left_wheel_radius_)
      right_wheel_cur_pos == Mul(right_pos, right_wheel_radius_)
      left_wheel_dist_traveled == Sub(left_wheel_cur_pos, left_wheel_old_pos_)
      right_wheel_dist_traveled == Sub(right_wheel_cur_pos, right_wheel_old_pos_)
      linear == Mul(Add(right_wheel_dist_traveled, left_wheel_dist_traveled), Half)
      angular == Div(Sub(right_wheel_dist_traveled, left_wheel_dist_traveled),
                     wheel_separation_)
      p == integrate_fun_(pose, linear, angular)
      dt == toSec(time - timestamp_)
      lin_acc == RollingPush(linear_accum_, velocity_rolling_window_size_,
                             Div(linear, dt))
      ang_acc == RollingPush(angular_accum_, velocity_rolling_window_size_,
                             Div(angular, dt))
  IN  /\ callsLeft > 0
      /\ IF Less(dt, MinDt)
         THEN /\ UNCHANGED <<timestamp_, linear_accum_, angular_accum_,
                             linear_vel_, angular_vel_, x_, y_, heading_,
                             left_wheel_old_pos_, right_wheel_old_pos_>>
              /\ last' = Call("updateWithVelEst", <<left_pos, right_pos, time>>,
                              FALSE, NoIncrement)
              /\ UNCHANGED <<linear_samples, angular_samples>>
              /\ run' = Integrated(Zero, Zero, FALSE)
         ELSE /\ left_wheel_old_pos_' = left_wheel_cur_pos
              /\ right_wheel_old_pos_' = right_wheel_cur_pos
              /\ x_' = p[1]
              /\ y_' = p[2]
              /\ heading_' = p[3]
              /\ timestamp_' = time
              /\ linear_accum_' = lin_acc
              /\ angular_accum_' = ang_acc
              /\ linear_vel_' = rolling_mean(lin_acc)
              /\ angular_vel_' = rolling_mean(ang_acc)
              /\ last' = Call("updateWithVelEst", <<left_pos, right_pos, time>>,
                              TRUE, <<linear, angular>>)
              /\ linear_samples' = Append(linear_samples, Div(linear, dt))
              /\ angular_samples' = Append(angular_samples, Div(angular, dt))
              /\ run' = Integrated(linear, angular, TRUE)
      /\ UNCHANGED <<wheel_separation_, left_wheel_radius_, right_wheel_radius_,
                     velocity_rolling_window_size_>>
      /\ callsLeft' = callsLeft - 1
      /\ maxTime' = Max(maxTime, time)
      /\ UNCHANGED discarded
      /\ prev_enc' = <<left_pos, right_pos, left_wheel_radius_, right_wheel_radius_>>

updateWithVelEst(left_pos, right_pos, time) ==
  LET left_wheel_cur_pos == Mul(left_pos, left_wheel_radius_)
      right_wheel_cur_pos == Mul(right_pos, right_wheel_radius_)
      left_wheel_dist_traveled == Sub(left_wheel_cur_pos, left_wheel_old_pos_)
      right_wheel_dist_traveled == Sub(right_wheel_cur_pos, right_wheel_old_pos_)
      linear == Mul(Add(right_wheel_dist_traveled, left_wheel_dist_traveled), Half)
      angular == Div(Sub(right_wheel_dist_traveled, left_wheel_dist_traveled),
                     wheel_separation_)
      p == integrate_fun_(pose, linear, angular)
      dt == toSec(time - timestamp_)
      lin_acc == RollingPush(linear_accum_, velocity_rolling_window_size_,
                             Div(linear, dt))
      ang_acc == RollingPush(angular_accum_, velocity_rolling_window_size_,
                             Div(angular, dt))
  IN  /\ callsLeft > 0
      /\ left_wheel_old_pos_' = left_wheel_cur_pos
      /\ right_wheel_old_pos_' = right_wheel_cur_pos
      /\ x_' = p[1]
      /\ y_' = p[2]
      /\ heading_' = p[3]
      /\ IF Less(dt, MinDt)
         THEN /\ UNCHANGED <<timestamp_, linear_accum_, angular_accum_,
                             linear_vel_, angular_vel_>>
              /\ last' = Call("updateWithVelEst", <<left_pos, right_pos, time>>,
                              FALSE, <<linear, angular>>)
              /\ UNCHANGED <<linear_samples, angular_samples>>
         ELSE /\ timestamp_' = time
              /\ linear_accum_' = lin_acc
              /\ angular_accum_' = ang_acc
              /\ linear_vel_' = rolling_mean(lin_acc)
              /\ angular_vel_' = rolling_mean(ang_acc)
              /\ last' = Call("updateWithVelEst", <<left_pos, right_pos, time>>,
                              TRUE, <<linear, angular>>)
              /\ linear_samples' = Append(linear_samples, Div(linear, dt))
              /\ angular_samples' = Append(angular_samples, Div(angular, dt))
      /\ UNCHANGED <<wheel_separation_, left_wheel_radius_, right_wheel_radius_,
                     velocity_rolling_window_size_>>
      /\ callsLeft' = callsLeft - 1
      /\ maxTime' = Max(maxTime, time)
      /\ run' = Integrated(linear, angular, ~Less(dt, MinDt))
      /\ UNCHANGED discarded
      /\ prev_enc' = <<left_pos, right_pos, left_wheel_radius_, right_wheel_radius_>>

\* update passing its velocities through the rolling mean accumulators.
update_filtered(left_pos, right_pos, left_vel, right_vel, time) ==
  LET r == Mul(Add(left_wheel_radius_, right_wheel_radius_), Half)
      left_wheel_cur_pos == Mul(left_pos, left_wheel_radius_)
      right_wheel_cur_pos == Mul(right_pos, right_wheel_radius_)
      left_wheel_dist_traveled == Sub(left_wheel_cur_pos, left_wheel_old_pos_)
      right_wheel_dist_traveled == Sub(right_wheel_cur_pos, right_wheel_old_pos_)
      linear_diff == Mul(Add(right_wheel_dist_traveled, left_wheel_dist_traveled), Half)
      angular_diff == Div(Sub(right_wheel_dist_traveled, left_wheel_dist_traveled),
                          wheel_separation_)
      p == integrate_fun_(pose, linear_diff, angular_diff)
      lin_acc == RollingPush(linear_accum_, velocity_rolling_window_size_,
                             Div(Mul(Add(left_vel, right_vel), r), R(2)))
      ang_acc == RollingPush(angular_accum_, velocity_rolling_window_size_,
                             Div(Mul(r, Sub(right_vel, left_vel)), wheel_separation_))
  IN  /\ callsLeft > 0
      /\ linear_accum_' = lin_acc
      /\ angular_accum_' = ang_acc
      /\ linear_vel_' = rolling_mean(lin_acc)
      /\ angular_vel_' = rolling_mean(ang_acc)
      /\ left_wheel_old_pos_' = left_wheel_cur_pos
      /\ right_wheel_old_pos_' = right_wheel_cur_pos
      /\ x_' = p[1]
      /\ y_' = p[2]
      /\ heading_' = p[3]
      /\ UNCHANGED <<timestamp_, wheel_separation_, left_wheel_radius_,
                     right_wheel_radius_, velocity_rolling_window_size_>>
      /\ callsLeft' = callsLeft - 1
      /\ last' = Call("update", <<left_pos, right_pos, left_vel, right_vel, time>>,
                      TRUE, <<linear_diff, angular_diff>>)
      /\ maxTime' = Max(maxTime, time)
      /\ UNCHANGED <<linear_samples, angular_samples, discarded>>
      /\ run' = Integrated(linear_diff, angular_diff, TRUE)
      /\ prev_enc' = <<left_pos, right_pos, left_wheel_radius_, right_wheel_radius_>>

update(left_pos, right_pos, left_vel, right_vel, time) ==
  LET r == Mul(Add(left_wheel_radius_, right_wheel_radius_), Half)
      left_wheel_cur_pos == Mul(left_pos, left_wheel_radius_)
      right_wheel_cur_pos == Mul(right_pos, right_wheel_radius_)
      left_wheel_dist_traveled == Sub(left_wheel_cur_pos, left_wheel_old_pos_)
      right_wheel_dist_traveled == Sub(right_wheel_cur_pos, right_wheel_old_pos_)
      linear_diff == Mul(Add(right_wheel_dist_traveled, left_wheel_dist_traveled), Half)
      angular_diff == Div(Sub(right_wheel_dist_traveled, left_wheel_dist_traveled),
                          wheel_separation_)
      p == integrate_fun_(pose, linear_diff, angular_diff)
  IN  /\ callsLeft > 0
      /\ linear_vel_' = Div(Mul(Add(left_vel, right_vel), r), R(2))
      /\ angular_vel_' = Div(Mul(r, Sub(right_vel, left_vel)), wheel_separation_)
      /\ left_wheel_old_pos_' = left_wheel_cur_pos
      /\ right_wheel_old_pos_' = right_wheel_cur_pos
      /\ x_' = p[1]
      /\ y_' = p[2]
      /\ heading_' = p[3]
      /\ UNCHANGED <<timestamp_, wheel_separation_, left_wheel_radius_,
                     right_wheel_radius_, velocity_rolling_window_size_,
                     linear_accum_, angular_accum_>>
      /\ callsLeft' = callsLeft - 1
      /\ last' = Call("update", <<left_pos, right_pos, left_vel, right_vel, time>>,
                      TRUE, <<linear_diff, angular_diff>>)
      /\ maxTime' = Max(maxTime, time)
      /\ UNCHANGED <<linear_samples, angular_samples, discarded>>
      /\ run' = Integrated(linear_diff, angular_diff, TRUE)
      /\ prev_enc' = <<left_pos, right_pos, left_wheel_radius_, right_wheel_radius_>>

\* updateOpenLoop refusing a short interval the way updateWithVelEst does.
updateOpenLoop_guarded(linear, angular, time) ==
  LET dt == toSec(time - timestamp_)
      p == integrate_fun_(pose, Mul(linear, dt), Mul(angular, dt))
  IN  /\ callsLeft > 0
      /\ linear_vel_' = linear
      /\ angular_vel_' = angular
      /\ IF Less(dt, MinDt)
         THEN UNCHANGED <<timestamp_, x_, y_, heading_>>
         ELSE /\ timestamp_' = time
              /\ x_' = p[1]
              /\ y_' = p[2]
              /\ heading_' = p[3]
      /\ UNCHANGED <<wheel_separation_, left_wheel_radius_, right_wheel_radius_,
                     left_wheel_old_pos_, right_wheel_old_pos_,
                     velocity_rolling_window_size_, linear_accum_, angular_accum_>>
      /\ callsLeft' = callsLeft - 1
      /\ last' = Call("updateOpenLoop", <<linear, angular, time>>, TRUE,
                      <<Mul(linear, dt), Mul(angular, dt)>>)
      /\ maxTime' = Max(maxTime, time)
      /\ UNCHANGED <<linear_samples, angular_samples, discarded, prev_enc>>
      /\ run' = NewRun(heading_', left_wheel_old_pos_, right_wheel_old_pos_)

updateOpenLoop(linear, angular, time) ==
  LET dt == toSec(time - timestamp_)
      p == integrate_fun_(pose, Mul(linear, dt), Mul(angular, dt))
  IN  /\ callsLeft > 0
      /\ linear_vel_' = linear
      /\ angular_vel_' = angular
      /\ timestamp_' = time
      /\ x_' = p[1]
      /\ y_' = p[2]
      /\ heading_' = p[3]
      /\ UNCHANGED <<wheel_separation_, left_wheel_radius_, right_wheel_radius_,
                     left_wheel_old_pos_, right_wheel_old_pos_,
                     velocity_rolling_window_size_, linear_accum_, angular_accum_>>
      /\ callsLeft' = callsLeft - 1
      /\ last' = Call("updateOpenLoop", <<linear, angular, time>>, TRUE,
                      <<Mul(linear, dt), Mul(angular, dt)>>)
      /\ maxTime' = Max(maxTime, time)
      /\ UNCHANGED <<linear_samples, angular_samples, discarded, prev_enc>>
      /\ run' = NewRun(p[3], left_wheel_old_pos_, right_wheel_old_pos_)

setWheelParams(wheel_separation, left_wheel_radius, right_wheel_radius) ==
  /\ callsLeft > 0
  /\ wheel_separation_' = wheel_separation
  /\ left_wheel_radius_' = left_wheel_radius
  /\ right_wheel_radius_' = right_wheel_radius
  /\ UNCHANGED <<timestamp_, x_, y_, heading_, linear_vel_, angular_vel_,
                 left_wheel_old_pos_, right_wheel_old_pos_,
                 velocity_rolling_window_size_, linear_accum_, angular_accum_>>
  /\ callsLeft' = callsLeft - 1
  /\ last' = Call("setWheelParams",
                  <<wheel_separation, left_wheel_radius, right_wheel_radius>>,
                  TRUE, NoIncrement)
  /\ UNCHANGED <<maxTime, linear_samples, angular_samples, discarded, prev_enc>>
  /\ run' = NewRun(heading_, left_wheel_old_pos_, right_wheel_old_pos_)

setVelocityRollingWindowSize(velocity_rolling_window_size) ==
  /\ callsLeft > 0
  /\ velocity_rolling_window_size_' = velocity_rolling_window_size
  /\ resetAccumulators
  /\ UNCHANGED <<timestamp_, x_, y_, heading_, linear_vel_, angular_vel_,
                 wheel_separation_, left_wheel_radius_, right_wheel_radius_,
                 left_wheel_old_pos_, right_wheel_old_pos_>>
  /\ callsLeft' = callsLeft - 1
  /\ last' = Call("setVelocityRollingWindowSize", <<velocity_rolling_window_size>>,
                  TRUE, NoIncrement)
  /\ maxTime' = maxTime
  /\ linear_samples' = <<>>
  /\ angular_samples' = <<>>
  /\ discarded' = Len(linear_samples)
  /\ KeepRun

Next ==
  \/ \E t \in Times : init(t)
  \/ \E pp \in PosPairs, t \in Times : updateWithVelEst(pp[1], pp[2], t)
  \/ \E pp \in PosPairs, rp \in RatePairs, t \in UpdateTimes :
       update(pp[1], pp[2], rp[1], rp[2], t)
  \/ \E vp \in VelPairs, t \in Times : updateOpenLoop(vp[1], vp[2], t)
  \/ \E wp \in WheelParamChoices : setWheelParams(wp[1], wp[2], wp[3])
  \/ \E n \in WindowSizes : setVelocityRollingWindowSize(n)

Spec == Init /\ [][Next]_vars

\* The object driven only through setWheelParams and the two encoder
\* updates, for longer.
InitEnc == Constructed /\ callsLeft = MaxEncCalls

NextEnc ==
  \/ \E pp \in PosPairs, t \in Times : updateWithVelEst(pp[1], pp[2], t)
  \/ \E pp \in PosPairs, rp \in RatePairs, t \in UpdateTimes :
       update(pp[1], pp[2], rp[1], rp[2], t)
  \/ \E wp \in WheelParamChoices : setWheelParams(wp[1], wp[2], wp[3])

SpecEnc == InitEnc /\ [][NextEnc]_vars

\* The object driven only through the operations that bear on the filtered
\* velocity estimate, for longer.
InitVel == Constructed /\ callsLeft = MaxVelCalls

NextVel ==
  \/ \E t \in Times : init(t)
  \/ \E pp \in PosPairs, t \in Times : updateWithVelEst(pp[1], pp[2], t)
  \/ \E wp \in WheelParamChoices : setWheelParams(wp[1], wp[2], wp[3])
  \/ \E n \in WindowSizes : setVelocityRollingWindowSize(n)

SpecVel == InitVel /\ [][NextVel]_vars

---------------------------------------------------------------------------
(* Vocabulary of the properties.  Every step of Next is a call, described  *)
(* by last' (callsLeft decreases, so no step of Next stutters); in an      *)
(* action formula the unprimed variables are the state before the call.    *)

EncoderUpdates == {"updateWithVelEst", "update"}
PoseUpdates == {"updateWithVelEst", "update", "updateOpenLoop"}
Resets == {"init", "setVelocityRollingWindowSize"}

\* The thresholds, as the specification writes them.
TenthOfMilli == <<1, 10000>>

\* WheelKinematics.distance
Distance(position, radius) == Mul(position, radius)

\* WheelKinematics.bodyDisplacement
BodyDisplacement(leftDelta, rightDelta, separation) ==
  <<Mul(Add(leftDelta, rightDelta), Half),
    Div(Sub(rightDelta, leftDelta), separation)>>

\* WheelKinematics.bodyVelocityFromWheelRates
BodyVelocity(leftRate, rightRate, leftRadius, rightRadius, separation) ==
  LET r == Mul(Add(leftRadius, rightRadius), Half)
  IN  <<Div(Mul(r, Add(leftRate, rightRate)), R(2)),
        Div(Mul(r, Sub(rightRate, leftRate)), separation)>>

\* The body displacement the wheel positions <<leftPos, rightPos>> stand
\* for in the current state.
EncoderIncrement(leftPos, rightPos) ==
  BodyDisplacement(
    Sub(Distance(leftPos, left_wheel_radius_), left_wheel_old_pos_),
    Sub(Distance(rightPos, right_wheel_radius_), right_wheel_old_pos_),
    wheel_separation_)

\* Elapsed seconds from the stored Timestamp to time.
Elapsed(time) == toSec(time - timestamp_)

Min(a, b) == IF a < b THEN a ELSE b

\* The k most recent of the samples s.
MostRecent(s, k) == SubSeq(s, Len(s) - k + 1, Len(s))

Mean(s) == Div(SumSeq(s), R(Len(s)))

\* The time argument of a call that has one.
Timed == {"init", "updateWithVelEst", "update", "updateOpenLoop"}
TimeOf(c) == IF c.op = "init" THEN c.args[1]
             ELSE IF c.op = "update" THEN c.args[5]
             ELSE c.args[3]

\* The velocity estimate an accepted updateWithVelEst(leftPos, rightPos, time)
\* would report on an object with wheel parameters wp, EncoderMemory em,
\* timestamp ts, window size N and accumulators acc.
NextMeans(leftPos, rightPos, time, wp, em, ts, N, acc) ==
  LET d == BodyDisplacement(Sub(Distance(leftPos, wp[2]), em[1]),
                            Sub(Distance(rightPos, wp[3]), em[2]), wp[1])
      dt == toSec(time - ts)
      lin == Append(acc[1], Div(d[1], dt))
      ang == Append(acc[2], Div(d[2], dt))
  IN  <<Mean(MostRecent(lin, Min(N, Len(lin)))),
        Mean(MostRecent(ang, Min(N, Len(ang))))>>

\* That estimate is the same after the step as before it.
SameNextMeans(leftPos, rightPos, time) ==
  NextMeans(leftPos, rightPos, time, wheelParams', encoderMemory', timestamp_',
            velocity_rolling_window_size_', accumulators')
    = NextMeans(leftPos, rightPos, time, wheelParams, encoderMemory, timestamp_,
                velocity_rolling_window_size_, accumulators)

\* PoseIntegrator, Midpoint strategy.
Midpoint(p, dLinear, dAngular) ==
  LET direction == Add(p[3], Mul(dAngular, Half))
  IN  <<AddScaled(p[1], dLinear, "cos", direction),
        AddScaled(p[2], dLinear, "sin", direction),
        Add(p[3], dAngular)>>

\* PoseIntegrator, closed-form arc.
Arc(p, dLinear, dAngular) ==
  LET radius == Div(dLinear, dAngular)
      thetaNew == Add(p[3], dAngular)
  IN  <<AddScaled(AddScaled(p[1], radius, "sin", thetaNew), Neg(radius), "sin", p[3]),
        AddScaled(AddScaled(p[2], Neg(radius), "cos", thetaNew), radius, "cos", p[3]),
        thetaNew>>

SeparationUsable == IsFinite(wheel_separation_) /\ wheel_separation_ # Zero

---------------------------------------------------------------------------
(* C1 *)

\* C1: a call updateWithVelEst(leftPos, rightPos, time) with
\* time - timestamp_ < 1e-4 s returns false and leaves the velocity
\* estimate, the timestamp and both rolling accumulators as they were, while
\* EncoderMemory becomes <<leftPos*leftRadius, rightPos*rightRadius>> and the
\* pose is integrated with the body displacement of the position deltas.
C1_ShortInterval ==
  [][ (last'.op = "updateWithVelEst" /\ Less(Elapsed(last'.args[3]), TenthOfMilli))
      => LET leftPos == last'.args[1]
             rightPos == last'.args[2]
             d == EncoderIncrement(leftPos, rightPos)
         IN  /\ last'.ret = FALSE
             /\ UNCHANGED <<linear_vel_, angular_vel_, timestamp_,
                            linear_accum_, angular_accum_>>
             /\ left_wheel_old_pos_' = Distance(leftPos, left_wheel_radius_)
             /\ right_wheel_old_pos_' = Distance(rightPos, right_wheel_radius_)
             /\ pose' = integrate_fun_(pose, d[1], d[2]) ]_vars

\* A refused call, one tick after the last accepted one, that turned and
\* advanced a finite pose and found samples in the accumulators.
C1_Witness ==
  /\ last.op = "updateWithVelEst"
  /\ last.ret = FALSE
  /\ last.args[3] - timestamp_ = 1
  /\ linear_accum_ # <<>>
  /\ IsFinite(heading_)
  /\ last.inc[1] # Zero
  /\ last.inc[2] # Zero

---------------------------------------------------------------------------
(* C2 *)

\* C2: with WheelParams held constant (and a usable separation), over any
\* run of updateWithVelEst and update calls, those of updateWithVelEst that
\* return false included, the angular increments integrated into the pose
\* sum to ((right - left) now - (right - left) at the start) / separation
\* and the linear increments to half the sum of the two wheels' distance
\* changes, where the wheel distances are position * radius; and the
\* heading is the heading at the start plus that angular sum.
C2_NoDisplacementLost ==
  SeparationUsable =>
    /\ run.angular =
         Div(Sub(Sub(right_wheel_old_pos_, left_wheel_old_pos_),
                 Sub(run.right0, run.left0)),
             wheel_separation_)
    /\ run.linear =
         Mul(Add(Sub(right_wheel_old_pos_, run.right0),
                 Sub(left_wheel_old_pos_, run.left0)),
             Half)
    /\ heading_ = Add(run.heading0, run.angular)
    /\ (run.calls > 0 =>
          /\ left_wheel_old_pos_ = Distance(prev_enc[1], left_wheel_radius_)
          /\ right_wheel_old_pos_ = Distance(prev_enc[2], right_wheel_radius_))

\* An accepted call after a refused one in the same run, the run having
\* turned and advanced a finite pose by more than the last call did.
C2_Witness ==
  /\ SeparationUsable
  /\ last.op = "updateWithVelEst"
  /\ last.ret = TRUE
  /\ run.refused > 0
  /\ IsFinite(heading_)
  /\ run.angular # Zero
  /\ run.linear # Zero
  /\ run.angular # last.inc[2]

---------------------------------------------------------------------------
(* C3 *)

\* C3: a call updateWithVelEst(leftPos, rightPos, time) with
\* time - timestamp_ >= 1e-4 s returns true, sets the timestamp to time,
\* gives the samples linear/dt and angular/dt to the accumulators, and sets
\* each velocity to the mean of exactly the min(N, k) most recent samples
\* of its channel, N the window size and k the number of samples since the
\* last init or setVelocityRollingWindowSize.
C3_RollingMean ==
  [][ (last'.op = "updateWithVelEst" /\ ~Less(Elapsed(last'.args[3]), TenthOfMilli))
      => LET d == EncoderIncrement(last'.args[1], last'.args[2])
             dt == Elapsed(last'.args[3])
             N == velocity_rolling_window_size_
         IN  /\ last'.ret = TRUE
             /\ timestamp_' = last'.args[3]
             /\ linear_samples' = Append(linear_samples, Div(d[1], dt))
             /\ angular_samples' = Append(angular_samples, Div(d[2], dt))
             /\ linear_vel_' =
                  Mean(MostRecent(linear_samples', Min(N, Len(linear_samples'))))
             /\ angular_vel_' =
                  Mean(MostRecent(angular_samples', Min(N, Len(angular_samples')))) ]_vars

\* An accepted call that evicted a sample: more samples than the window
\* holds, and a mean that the evicted sample would have changed.
C3_Witness ==
  /\ last.op = "updateWithVelEst"
  /\ last.ret = TRUE
  /\ Len(linear_samples) > velocity_rolling_window_size_
  /\ IsFinite(linear_vel_)
  /\ IsFinite(angular_vel_)
  /\ Mean(linear_samples) # linear_vel_
  /\ Mean(angular_samples) # angular_vel_

---------------------------------------------------------------------------
(* C4 *)

\* C4: init and setVelocityRollingWindowSize(n) leave both accumulators
\* empty, the latter with n as the window size; the first accepted
\* updateWithVelEst after either sets the velocity estimate to exactly its
\* own samples <<linear/dt, angular/dt>>, and no accumulator ever holds
\* more samples than the window size last set.
C4_ResetEmptiesWindows ==
  [][ /\ (last'.op \in Resets
            => linear_accum_' = <<>> /\ angular_accum_' = <<>>)
      /\ (last'.op = "setVelocityRollingWindowSize"
            => velocity_rolling_window_size_' = last'.args[1])
      /\ (last'.op = "updateWithVelEst" /\ last'.ret /\ linear_samples = <<>>
            => LET d == EncoderIncrement(last'.args[1], last'.args[2])
                   dt == Elapsed(last'.args[3])
               IN  /\ linear_vel_' = Div(d[1], dt)
                   /\ angular_vel_' = Div(d[2], dt))
      /\ Len(linear_accum_') <= velocity_rolling_window_size_'
      /\ Len(angular_accum_') <= velocity_rolling_window_size_' ]_vars

\* The first accepted call after a reset that threw samples away.
C4_Witness ==
  /\ last.op = "updateWithVelEst"
  /\ last.ret = TRUE
  /\ Len(linear_samples) = 1
  /\ discarded > 0
  /\ IsFinite(linear_vel_)
  /\ linear_vel_ # Zero

---------------------------------------------------------------------------
(* C5 *)

\* C5 as stated: update always returns true, sets the velocity estimate to
\* r*(leftRate+rightRate)/2 and r*(rightRate-leftRate)/separation with r the
\* mean radius, leaves the contents of both accumulators as they were, and
\* leaves the mean any later accepted updateWithVelEst would report as it
\* was.
C5_LaterMeanUnaffected ==
  [][ last'.op = "update"
      => /\ last'.ret = TRUE
         /\ velocity' = BodyVelocity(last'.args[3], last'.args[4], left_wheel_radius_,
                                     right_wheel_radius_, wheel_separation_)
         /\ UNCHANGED accumulators
         /\ \A pp \in PosPairs, t \in Times :
              ~Less(Elapsed(t), TenthOfMilli)
                => SameNextMeans(pp[1], pp[2], t) ]_vars

\* C5, amended: update always returns true, sets the velocity estimate to
\* r*(leftRate+rightRate)/2 and r*(rightRate-leftRate)/separation with r the
\* mean radius, and leaves the contents and the size of both accumulators
\* as they were; the mean a later accepted updateWithVelEst would report is
\* as it was when the call left EncoderMemory as it was.
C5_BypassesAccumulators ==
  [][ last'.op = "update"
      => /\ last'.ret = TRUE
         /\ velocity' = BodyVelocity(last'.args[3], last'.args[4], left_wheel_radius_,
                                     right_wheel_radius_, wheel_separation_)
         /\ UNCHANGED <<linear_accum_, angular_accum_, velocity_rolling_window_size_,
                        linear_samples, angular_samples>>
         /\ (encoderMemory' = encoderMemory
               => \A pp \in PosPairs, t \in Times :
                    ~Less(Elapsed(t), TenthOfMilli)
                      => SameNextMeans(pp[1], pp[2], t)) ]_vars

\* An update on accumulators that hold samples, reporting a finite velocity
\* that is not their mean.
C5_Witness ==
  /\ last.op = "update"
  /\ linear_accum_ # <<>>
  /\ IsFinite(linear_vel_)
  /\ IsFinite(angular_vel_)
  /\ IsFinite(rolling_mean(linear_accum_))
  /\ linear_vel_ # rolling_mean(linear_accum_)
  /\ angular_vel_ # rolling_mean(angular_accum_)

---------------------------------------------------------------------------
(* C6 *)

\* C6: with a usable separation, an update whose leftPos and rightPos are
\* the positions passed to the immediately preceding encoder update leaves
\* the pose unchanged, whatever wheel velocities it is given, and sets the
\* velocity estimate to a function of those velocities, the radii and the
\* separation only.
C6_PoseVelocityDecoupled ==
  [][ (/\ last'.op = "update"
       /\ SeparationUsable
       /\ prev_enc # <<>>
       /\ last'.args[1] = prev_enc[1]
       /\ last'.args[2] = prev_enc[2])
      => /\ pose' = pose
         /\ velocity' = BodyVelocity(last'.args[3], last'.args[4], left_wheel_radius_,
                                     right_wheel_radius_, wheel_separation_) ]_vars

\* C6 holds of the calls between which the radii did not change: with a
\* usable separation and the radii of the preceding encoder update, an
\* update at that update's positions leaves the pose unchanged and sets the
\* velocity estimate from the wheel velocities, the radii and the
\* separation.
C6_UnchangedRadii ==
  [][ (/\ last'.op = "update"
       /\ SeparationUsable
       /\ prev_enc # <<>>
       /\ last'.args[1] = prev_enc[1]
       /\ last'.args[2] = prev_enc[2]
       /\ left_wheel_radius_ = prev_enc[3]
       /\ right_wheel_radius_ = prev_enc[4])
      => /\ pose' = pose
         /\ last'.inc = NoIncrement
         /\ velocity' = BodyVelocity(last'.args[3], last'.args[4], left_wheel_radius_,
                                     right_wheel_radius_, wheel_separation_) ]_vars

---------------------------------------------------------------------------
(* C7 *)

\* C7: updateOpenLoop(linear, angular, time) sets the velocity estimate to
\* <<linear, angular>>, sets the timestamp to time whatever the interval
\* dt = time - timestamp_ (short and negative ones included), integrates the
\* pose with <<linear*dt, angular*dt>>, and leaves EncoderMemory and the
\* accumulators as they were; with angular = 0 from heading 0, x grows by
\* exactly linear*dt (the claim's example is linear = 1 and dt = 2 s) while
\* y and the heading stay.
C7_OpenLoop ==
  [][ last'.op = "updateOpenLoop"
      => LET linear == last'.args[1]
             angular == last'.args[2]
             dt == Elapsed(last'.args[3])
         IN  /\ velocity' = <<linear, angular>>
             /\ timestamp_' = last'.args[3]
             /\ pose' = integrate_fun_(pose, Mul(linear, dt), Mul(angular, dt))
             /\ UNCHANGED <<left_wheel_old_pos_, right_wheel_old_pos_,
                            linear_accum_, angular_accum_>>
             /\ (angular = Zero /\ heading_ = Zero
                   => /\ x_' = AddConst(x_, Mul(linear, dt))
                      /\ y_' = y_
                      /\ heading_' = heading_) ]_vars

\* An open-loop update over a negative interval, on an object that has
\* samples, an encoder memory and a finite pose.
C7_Witness ==
  /\ last.op = "updateOpenLoop"
  /\ Less(last.inc[1], Zero)
  /\ timestamp_ = last.args[3]
  /\ linear_accum_ # <<>>
  /\ left_wheel_old_pos_ # Zero
  /\ IsFinite(heading_)
  /\ x_ # XNaN

---------------------------------------------------------------------------
(* C8 *)

\* C8 as stated: the timestamp is the time of the last update of pose or
\* velocity: after init(t) it is t; after an update call of any of the
\* three modes, made at time t, that changed the pose or the velocity
\* estimate it is t; and a call whose time is no earlier than any time
\* passed before never moves the timestamp back.  Stated for a usable
\* separation.
C8_TimestampIsLastUpdate ==
  [][ (SeparationUsable /\ last'.op \in Timed)
      => /\ (last'.op = "init" => timestamp_' = TimeOf(last'))
         /\ ((last'.op \in PoseUpdates /\ (pose' # pose \/ velocity' # velocity))
               => timestamp_' = TimeOf(last'))
         /\ (TimeOf(last') >= maxTime => timestamp_' >= timestamp_) ]_vars

\* C8, amended: the timestamp is the time of the last init, updateOpenLoop or
\* updateWithVelEst that returned true: each of these, made at time t, sets
\* it to t; an updateWithVelEst that returns false, an update and the two
\* setters leave it as it was, whatever they change; it is never later than
\* the latest time passed, and a call whose time is no earlier than any time
\* passed before never moves it back.
C8_TimestampFollowsAcceptedCalls ==
  [][ /\ (last'.op \in {"init", "updateOpenLoop"} => timestamp_' = TimeOf(last'))
      /\ (last'.op = "updateWithVelEst"
            => timestamp_' = IF last'.ret THEN TimeOf(last') ELSE timestamp_)
      /\ (last'.op \in {"update", "setWheelParams", "setVelocityRollingWindowSize"}
            => timestamp_' = timestamp_)
      /\ timestamp_' <= maxTime'
      /\ ((last'.op \in Timed /\ TimeOf(last') >= maxTime)
            => timestamp_' >= timestamp_) ]_vars

\* An update that moved a finite pose and set a finite velocity, at a time
\* the timestamp does not show.
C8_Witness ==
  /\ last.op = "update"
  /\ SeparationUsable
  /\ timestamp_ # last.args[5]
  /\ timestamp_ # 0
  /\ last.inc[1] # Zero
  /\ IsFinite(heading_)
  /\ IsFinite(linear_vel_)
  /\ linear_vel_ # Zero

---------------------------------------------------------------------------
(* C9 *)

\* C9: init changes only the accumulators and the timestamp, setWheelParams
\* only the wheel parameters, setVelocityRollingWindowSize only the window
\* size and the accumulators; each leaves pose, velocity estimate and
\* EncoderMemory as they were, and the pose changes only in the three update
\* calls.
C9_ConfigurationKeepsPose ==
  [][ /\ (last'.op = "init"
            => UNCHANGED <<pose, velocity, encoderMemory, wheelParams,
                           velocity_rolling_window_size_>>)
      /\ (last'.op = "setWheelParams"
            => /\ wheelParams' = last'.args
               /\ UNCHANGED <<pose, velocity, encoderMemory, timestamp_,
                              accumulators, velocity_rolling_window_size_>>)
      /\ (last'.op = "setVelocityRollingWindowSize"
            => UNCHANGED <<pose, velocity, encoderMemory, timestamp_, wheelParams>>)
      /\ (pose' # pose => last'.op \in PoseUpdates) ]_vars

\* init on an object away from the origin, with a velocity and an encoder
\* memory.
C9_Witness ==
  /\ last.op = "init"
  /\ x_ # XZero
  /\ x_ # XNaN
  /\ IsFinite(heading_)
  /\ heading_ # Zero
  /\ linear_vel_ # Zero
  /\ left_wheel_old_pos_ # Zero
  /\ discarded > 0

---------------------------------------------------------------------------
(* C10 *)

\* C10: every pose integration, of the increment <<dLinear, dAngular>>, is
\* the closed-form arc update when |dAngular| >= 1e-4 and the Midpoint update
\* otherwise; below the threshold integrateExact and integrateRungeKutta2
\* give the same pose; the heading becomes heading + dAngular, unwrapped;
\* and the increment <<0, 0>> leaves the pose as it was.
C10_ArcOrMidpoint ==
  [][ last'.op \in PoseUpdates
      => LET dLinear == last'.inc[1]
             dAngular == last'.inc[2]
         IN  /\ pose' = IF Less(Fabs(dAngular), TenthOfMilli)
                        THEN Midpoint(pose, dLinear, dAngular)
                        ELSE Arc(pose, dLinear, dAngular)
             /\ (Less(Fabs(dAngular), TenthOfMilli)
                   => integrateExact(pose, dLinear, dAngular)
                        = integrateRungeKutta2(pose, dLinear, dAngular))
             /\ heading_' = Add(heading_, dAngular)
             /\ (dLinear = Zero /\ dAngular = Zero => pose' = pose) ]_vars

\* An integration of an increment that advances and turns by exactly the
\* threshold, from a finite heading.
C10_Witness ==
  /\ last.op \in PoseUpdates
  /\ Fabs(last.inc[2]) = TenthOfMilli
  /\ last.inc[1] # Zero
  /\ IsFinite(heading_)
  /\ x_ # XNaN
  /\ x_ # XZero

=============================================================================
